---- MODULE Spec2Model ----
(***************************************************************************)
(* Model of market_price_fetcher: main.py (CryptoPriceTracker, main) and   *)
(* db_utils.py (get_db_table, df_to_table, df_replace_table).              *)
(*                                                                         *)
(* A DataFrame is a sequence of records (rows, in row order).  A value     *)
(* that may be missing (None, NaN) is a sequence of length at most one:    *)
(* <<>> is the missing value and <<x>> is the value x.  A float obtained   *)
(* by a division is kept as a fraction in lowest terms.                    *)
(***************************************************************************)
EXTENDS Integers, Sequences, FiniteSets

VARIABLES
    pc,            \* position of main(): which step comes next
    run,           \* number of process invocations started so far
    symbols,       \* add_multiple_prices: the list being iterated
    idx,           \* add_multiple_prices: number of symbols already handled
    success_count, \* add_multiple_prices: its counter
    df,            \* tracker.df, the in-memory price table
    clock_minute,  \* the wall clock, in whole minutes
    db,            \* the relational store: table name -> rows
    result_df,     \* update_nav: the joined and computed frame it printed
    log,           \* the error messages this process wrote
    write_calls,   \* number of DataFrame.to_sql calls this process issued
    last_call      \* the most recent db_utils call and its arguments

vars == <<pc, run, symbols, idx, success_count, df, clock_minute, db,
          result_df, log, write_calls, last_call>>

-----------------------------------------------------------------------------
(* Bounds of the model *)

MaxMinute == 1       \* the clock runs over minutes 0..MaxMinute
MaxShareRows == 2    \* rows of shares_table when the NAV step is driven alone
MaxRuns == 2         \* process invocations in the repeated-run specification
MaxWrites == 3       \* db_utils calls when the module is driven alone

-----------------------------------------------------------------------------
(* Configuration and value domains *)

COIN_MAPPINGS ==
    [BTCUSDT |-> "benchmark_btc",
     ETHUSDT |-> "benchmark_eth",
     SOLUSDT |-> "benchmark_sol"]

\* list(self.COIN_MAPPINGS.keys()): a dict keeps insertion order
CoinKeys == <<"BTCUSDT", "ETHUSDT", "SOLUSDT">>

CanonicalNames == {COIN_MAPPINGS[s] : s \in DOMAIN COIN_MAPPINGS}

None == <<>>
NaN == <<>>

Prices == {100, 7}
Seconds == {0, 59}
Microseconds == {0, 999999}

\* what the exchange answers to one ticker_price request
QuoteFailure == [ok |-> FALSE, price |-> 0]
QuoteSuccesses == {[ok |-> TRUE, price |-> p] : p \in Prices}
Quotes == QuoteSuccesses \cup {QuoteFailure}

TableNames == {"balance_all_consolidated", "nav_table", "shares_table"}

ShareTimes == {0, 1}
ShareValues == {NaN, <<0>>, <<50>>}
ShareNames == {"benchmark_btc", "benchmark_eth"}
ShareRows ==
    {[timestamp |-> t, pm |-> a, shares |-> s] :
        t \in ShareTimes, a \in ShareNames, s \in ShareValues}

RECURSIVE SeqsUpTo(_, _)
SeqsUpTo(S, n) ==
    IF n = 0 THEN {<<>>}
    ELSE LET shorter == SeqsUpTo(S, n - 1)
         IN  shorter \cup {Append(q, x) : q \in shorter, x \in S}

-----------------------------------------------------------------------------
(* Arithmetic *)

RECURSIVE GCD(_, _)
GCD(a, b) == IF b = 0 THEN a ELSE GCD(b, a % b)

Zero == [num |-> 0, den |-> 1]

\* a / b for a >= 0, b > 0
Divide(a, b) ==
    LET g == GCD(a, b) IN [num |-> a \div g, den |-> b \div g]

-----------------------------------------------------------------------------
(* CryptoPriceTracker: fetching *)

\* get_ticker_price: the price, or None when the request or the parse raised
get_ticker_price(response) ==
    IF response.ok THEN <<response.price>> ELSE None

\* datetime.now() can return any instant not before the last one observed
Now(minute, second, microsecond) ==
    [minute |-> minute, second |-> second, microsecond |-> microsecond]

get_current_timestamp_untruncated(now) == now

\* get_current_timestamp: now.replace(second=0, microsecond=0)
get_current_timestamp(now) ==
    [now EXCEPT !.second = 0, !.microsecond = 0]

-----------------------------------------------------------------------------
(* CryptoPriceTracker.update_nav: the pure part *)

Perms(n) ==
    {p \in [1..n -> 1..n] : \A i, j \in 1..n : p[i] = p[j] => i = j}

sort_values_ascending(shares) ==
    LET n == Len(shares)
        sorted(p) == [i \in 1..n |-> shares[p[i]]]
    IN  {sorted(p) : p \in
            {q \in Perms(n) :
                \A i \in 1..n, j \in 1..n :
                    i < j => shares[q[i]].timestamp =< shares[q[j]].timestamp}}

\* shares.sort_values(by='timestamp', ascending=False): the default sort is
\* not stable, so rows with equal timestamps may come out in any order
sort_values(shares) ==
    LET n == Len(shares)
        sorted(p) == [i \in 1..n |-> shares[p[i]]]
    IN  {sorted(p) : p \in
            {q \in Perms(n) :
                \A i \in 1..n, j \in 1..n :
                    i < j => shares[q[i]].timestamp >= shares[q[j]].timestamp}}

RECURSIVE KeepFirst(_, _)
KeepFirst(rows, seen) ==
    IF rows = <<>> THEN <<>>
    ELSE IF Head(rows).pm \in seen THEN KeepFirst(Tail(rows), seen)
    ELSE <<Head(rows)>> \o KeepFirst(Tail(rows), seen \cup {Head(rows).pm})

\* .drop_duplicates(subset='pm'): keep='first'
drop_duplicates(rows) == KeepFirst(rows, {})

\* the possible values of latest_shares
LatestShares(shares) == {drop_duplicates(s) : s \in sort_values(shares)}

RECURSIVE Matches(_, _)
Matches(left_row, right) ==
    IF right = <<>> THEN <<>>
    ELSE (IF Head(right).pm = left_row.pm
          THEN <<[timestamp |-> left_row.timestamp, pm |-> left_row.pm,
                  balance |-> left_row.balance, shares |-> Head(right).shares]>>
          ELSE <<>>)
         \o Matches(left_row, Tail(right))

RECURSIVE merge_inner(_, _)
merge_inner(left, right) ==
    IF left = <<>> THEN <<>>
    ELSE Matches(Head(left), right) \o merge_inner(Tail(left), right)

\* pd.merge(self.df, latest_shares[['pm','shares']], on='pm', how='left'):
\* every left row, once per matching right row, or once with NaN when
\* nothing matches
RECURSIVE merge(_, _)
merge(left, right) ==
    IF left = <<>> THEN <<>>
    ELSE LET m == Matches(Head(left), right)
         IN  (IF m = <<>>
              THEN <<[timestamp |-> Head(left).timestamp, pm |-> Head(left).pm,
                      balance |-> Head(left).balance, shares |-> NaN]>>
              ELSE m)
             \o merge(Tail(left), right)

nav_unguarded(row) ==
    IF row.shares = NaN THEN Zero ELSE Divide(row.balance, row.shares[1])

\* the lambda of update_nav
nav(row) ==
    IF row.shares = NaN \/ row.shares[1] = 0
    THEN Zero
    ELSE Divide(row.balance, row.shares[1])

\* result_df with its 'nav' column
with_nav(joined) ==
    [i \in 1..Len(joined) |->
        [timestamp |-> joined[i].timestamp, pm |-> joined[i].pm,
         balance |-> joined[i].balance, shares |-> joined[i].shares,
         nav |-> nav(joined[i])]]

-----------------------------------------------------------------------------
(* db_utils *)

\* what one process sees of the store and of its own output
Session ==
    [db |-> db, log |-> log, write_calls |-> write_calls,
     last_call |-> last_call]

Call(function, table_name, frame) ==
    [function |-> function, table_name |-> table_name, df |-> frame]

NoCall == Call("none", "none", <<>>)

Error(event, subject) == [event |-> event, subject |-> subject]

ShareColumns == {"timestamp", "pm", "shares"}

get_db_table_keeping_columns(s, table_name, read_ok) ==
    IF read_ok
    THEN [session |-> s,
          frame |-> [columns |-> ShareColumns, rows |-> s.db[table_name]]]
    ELSE [session |-> [s EXCEPT !.log = @ \cup {Error("read", table_name)}],
          frame |-> [columns |-> ShareColumns, rows |-> <<>>]]

\* get_db_table('select * from shares_table;'): the table as a frame, or
\* the empty frame pd.DataFrame(), which has no columns, when the read raised
get_db_table(s, table_name, read_ok) ==
    IF read_ok
    THEN [session |-> s,
          frame |-> [columns |-> ShareColumns, rows |-> s.db[table_name]]]
    ELSE [session |-> [s EXCEPT !.log = @ \cup {Error("read", table_name)}],
          frame |-> [columns |-> {}, rows |-> <<>>]]

df_to_table_unguarded(s, table_name, frame, write_ok) ==
    LET called == [s EXCEPT !.last_call = Call("df_to_table", table_name, frame),
                            !.write_calls = @ + 1]
    IN  IF write_ok
        THEN [called EXCEPT !.db[table_name] = @ \o frame]
        ELSE [called EXCEPT !.log = @ \cup {Error("write", table_name)}]

\* df_replace_table: to_sql(if_exists='replace')
df_replace_table(s, table_name, frame, write_ok) ==
    LET called == [s EXCEPT !.last_call =
                       Call("df_replace_table", table_name, frame)]
    IN  IF frame = <<>> THEN called
        ELSE IF write_ok
        THEN [called EXCEPT !.write_calls = @ + 1, !.db[table_name] = frame]
        ELSE [called EXCEPT !.write_calls = @ + 1,
                            !.log = @ \cup {Error("write", table_name)}]

df_to_table_replacing(s, table_name, frame, write_ok) ==
    [df_replace_table(s, table_name, frame, write_ok) EXCEPT
        !.last_call = Call("df_to_table", table_name, frame)]

\* df_to_table: to_sql(if_exists='append')
df_to_table(s, table_name, frame, write_ok) ==
    LET called == [s EXCEPT !.last_call = Call("df_to_table", table_name, frame)]
    IN  IF frame = <<>> THEN called
        ELSE IF write_ok
        THEN [called EXCEPT !.write_calls = @ + 1,
                            !.db[table_name] = @ \o frame]
        ELSE [called EXCEPT !.write_calls = @ + 1,
                            !.log = @ \cup {Error("write", table_name)}]

Commit(s) ==
    /\ db' = s.db
    /\ log' = s.log
    /\ write_calls' = s.write_calls
    /\ last_call' = s.last_call

-----------------------------------------------------------------------------
(* main() and the methods it calls *)

EmptyDb == [t \in TableNames |-> <<>>]

\* a process that has not yet run any statement of main()
Fresh ==
    /\ pc = "Init"
    /\ symbols = <<>>
    /\ idx = 0
    /\ success_count = 0
    /\ df = <<>>
    /\ result_df = <<>>
    /\ log = {}
    /\ write_calls = 0
    /\ last_call = NoCall

\* tracker = CryptoPriceTracker(); tracker.add_multiple_prices() is entered
\* with symbols = None.  A constructor that raises ends main().
Construct(outcomes) ==
    /\ pc = "Init"
    /\ \E constructed \in outcomes :
          IF constructed
          THEN /\ pc' = "FetchAll"
               /\ symbols' = CoinKeys
               /\ UNCHANGED log
          ELSE /\ pc' = "Crashed"
               /\ log' = log \cup {Error("main", "CryptoPriceTracker")}
               /\ UNCHANGED symbols
    /\ df' = <<>>
    /\ idx' = 0
    /\ success_count' = 0
    /\ UNCHANGED <<run, clock_minute, db, result_df, write_calls, last_call>>

\* add_price_record: the new table, the new log and the returned flag
add_price_record(symbol, response, now) ==
    IF symbol \notin DOMAIN COIN_MAPPINGS
    THEN [added |-> FALSE, df |-> df,
          log |-> log \cup {Error("mapping", symbol)}]
    ELSE LET price == get_ticker_price(response)
         IN  IF price = None
             THEN [added |-> FALSE, df |-> df,
                   log |-> log \cup {Error("quote", symbol)}]
             ELSE LET new_record ==
                          [timestamp |-> get_current_timestamp(now),
                           pm |-> COIN_MAPPINGS[symbol],
                           balance |-> price[1]]
                  IN  [added |-> TRUE, df |-> Append(df, new_record),
                       log |-> log]

next_symbol_abort(added) == IF added THEN idx + 1 ELSE Len(symbols)

\* for symbol in symbols: the loop moves on whatever add_price_record returned
next_symbol(added) == idx + 1

\* one iteration of the loop of add_multiple_prices
add_multiple_prices_step(quotes) ==
    /\ pc = "FetchAll"
    /\ idx < Len(symbols)
    /\ \E response \in quotes, minute \in clock_minute..MaxMinute,
          second \in Seconds, microsecond \in Microseconds :
          LET r == add_price_record(symbols[idx + 1], response,
                                    Now(minute, second, microsecond))
          IN  /\ df' = r.df
              /\ log' = r.log
              /\ success_count' = IF r.added THEN success_count + 1
                                  ELSE success_count
              /\ clock_minute' = IF r.added THEN minute ELSE clock_minute
              /\ idx' = next_symbol(r.added)
    /\ UNCHANGED <<pc, run, symbols, db, result_df, write_calls, last_call>>

\* the loop is over: the count is logged, the table and the summary printed
add_multiple_prices_return ==
    /\ pc = "FetchAll"
    /\ idx = Len(symbols)
    /\ pc' = "PersistPrices"
    /\ UNCHANGED <<run, symbols, idx, success_count, df, clock_minute, db,
                   result_df, log, write_calls, last_call>>

save_to_db_propagating(write_outcomes) ==
    /\ pc = "PersistPrices"
    /\ \E write_ok \in write_outcomes :
          /\ Commit(df_to_table(Session, "balance_all_consolidated", df, write_ok))
          /\ pc' = IF write_ok \/ df = <<>> THEN "ComputeAndPersistNav"
                   ELSE "Crashed"
    /\ UNCHANGED <<run, symbols, idx, success_count, df, clock_minute,
                   result_df>>

\* tracker.save_to_db()
save_to_db(write_outcomes) ==
    /\ pc = "PersistPrices"
    /\ \E write_ok \in write_outcomes :
          Commit(df_to_table(Session, "balance_all_consolidated", df, write_ok))
    /\ pc' = "ComputeAndPersistNav"
    /\ UNCHANGED <<run, symbols, idx, success_count, df, clock_minute,
                   result_df>>

NavError(s) == [s EXCEPT !.log = @ \cup {Error("nav", "nav_table")}]

\* tracker.update_nav()
update_nav(read_outcomes, write_outcomes) ==
    /\ pc = "ComputeAndPersistNav"
    /\ \E read_ok \in read_outcomes, write_ok \in write_outcomes,
          apply_raises \in BOOLEAN :
          LET got == get_db_table(Session, "shares_table", read_ok)
              shares == got.frame
          IN  IF "timestamp" \notin shares.columns
              THEN \* shares['timestamp'] raises KeyError
                   /\ Commit(NavError(got.session))
                   /\ UNCHANGED result_df
              ELSE \E latest_shares \in LatestShares(shares.rows) :
                      LET joined == merge(df, latest_shares)
                      IN  IF joined = <<>> /\ apply_raises
                          THEN \* apply on a frame without rows returns a
                               \* frame, which cannot be set as one column
                               /\ Commit(NavError(got.session))
                               /\ UNCHANGED result_df
                          ELSE /\ result_df' = with_nav(joined)
                               /\ Commit(df_to_table(got.session, "nav_table",
                                                     with_nav(joined), write_ok))
    /\ pc' = "Done"
    /\ UNCHANGED <<run, symbols, idx, success_count, df, clock_minute>>

\* the external scheduler starts the next process
StartRun ==
    /\ pc \in {"Done", "Crashed"}
    /\ run < MaxRuns
    /\ run' = run + 1
    /\ pc' = "Init"
    /\ symbols' = <<>>
    /\ idx' = 0
    /\ success_count' = 0
    /\ df' = <<>>
    /\ result_df' = <<>>
    /\ log' = {}
    /\ write_calls' = 0
    /\ last_call' = NoCall
    /\ UNCHANGED <<clock_minute, db>>

-----------------------------------------------------------------------------
(* Spec: one process run, where every request and statement may fail *)

SampleShares ==
    {<<>>,
     <<[timestamp |-> 0, pm |-> "benchmark_btc", shares |-> <<0>>],
       [timestamp |-> 1, pm |-> "benchmark_btc", shares |-> <<50>>]>>,
     <<[timestamp |-> 1, pm |-> "benchmark_eth", shares |-> <<50>>],
       [timestamp |-> 1, pm |-> "benchmark_eth", shares |-> <<0>>]>>}

Init ==
    /\ Fresh
    /\ run = 1
    /\ clock_minute = 0
    /\ \E shares \in SampleShares :
          db = [EmptyDb EXCEPT !["shares_table"] = shares]

Next ==
    \/ Construct(BOOLEAN)
    \/ add_multiple_prices_step(Quotes)
    \/ add_multiple_prices_return
    \/ save_to_db(BOOLEAN)
    \/ update_nav(BOOLEAN, BOOLEAN)

Spec == Init /\ [][Next]_vars

\* a running process keeps executing its next statement
FairSpec == Spec /\ WF_vars(Next)

-----------------------------------------------------------------------------
(* SpecRuns: the scheduler starts the process repeatedly; the exchange and *)
(* the store answer every request                                           *)

NextRuns ==
    \/ Construct({TRUE})
    \/ add_multiple_prices_step(QuoteSuccesses)
    \/ add_multiple_prices_return
    \/ save_to_db({TRUE})
    \/ update_nav({TRUE}, {TRUE})
    \/ StartRun

SpecRuns == Init /\ [][NextRuns]_vars

-----------------------------------------------------------------------------
(* SpecNav: update_nav applied to any price table of one cycle and any     *)
(* shares table of at most MaxShareRows rows                                *)

RECURSIVE FramesFrom(_, _)
FramesFrom(i, minute) ==
    IF i > Len(CoinKeys) THEN {<<>>}
    ELSE FramesFrom(i + 1, minute)
         \cup {<<[timestamp |-> get_current_timestamp(Now(minute, 0, 0)),
                  pm |-> COIN_MAPPINGS[CoinKeys[i]],
                  balance |-> p]>> \o rest :
                 p \in Prices, rest \in FramesFrom(i + 1, minute)}

InitNav ==
    /\ pc = "ComputeAndPersistNav"
    /\ run = 1
    /\ symbols = CoinKeys
    /\ idx = Len(CoinKeys)
    /\ df \in FramesFrom(1, 0)
    /\ success_count = Len(df)
    /\ clock_minute = 0
    /\ \E shares \in SeqsUpTo(ShareRows, MaxShareRows) :
          db = [EmptyDb EXCEPT !["shares_table"] = shares]
    /\ result_df = <<>>
    /\ log = {}
    /\ write_calls = 0
    /\ last_call = NoCall

NextNav == update_nav(BOOLEAN, BOOLEAN)

SpecNav == InitNav /\ [][NextNav]_vars

-----------------------------------------------------------------------------
(* SpecDb: the write functions of db_utils called directly                  *)

OldRow == [timestamp |-> 0, pm |-> "benchmark_btc", balance |-> 7]
NewRow == [timestamp |-> 1, pm |-> "benchmark_eth", balance |-> 100]
Frames == {<<>>, <<NewRow>>, <<NewRow, OldRow>>}

InitDb ==
    /\ pc = "db_utils"
    /\ run = 1
    /\ symbols = <<>>
    /\ idx = 0
    /\ success_count = 0
    /\ df = <<>>
    /\ clock_minute = 0
    /\ \E rows \in {<<>>, <<OldRow>>} :
          db = [t \in TableNames |-> rows]
    /\ result_df = <<>>
    /\ log = {}
    /\ write_calls = 0
    /\ last_call = NoCall

CallDfToTable ==
    /\ write_calls < MaxWrites
    /\ \E t \in TableNames, frame \in Frames, write_ok \in BOOLEAN :
          Commit(df_to_table(Session, t, frame, write_ok))
    /\ UNCHANGED <<pc, run, symbols, idx, success_count, df, clock_minute,
                   result_df>>

CallDfReplaceTable ==
    /\ write_calls < MaxWrites
    /\ \E t \in TableNames, frame \in Frames, write_ok \in BOOLEAN :
          Commit(df_replace_table(Session, t, frame, write_ok))
    /\ UNCHANGED <<pc, run, symbols, idx, success_count, df, clock_minute,
                   result_df>>

NextDb == CallDfToTable \/ CallDfReplaceTable

SpecDb == InitDb /\ [][NextDb]_vars

-----------------------------------------------------------------------------
(* Properties *)

AfterFetch == {"PersistPrices", "ComputeAndPersistNav", "Done"}

RowsOf(frame, name) == {i \in 1..Len(frame) : frame[i].pm = name}

QuoteFailed(symbol) == Error("quote", symbol) \in log
ReadFailed == Error("read", "shares_table") \in log
NavFailed == Error("nav", "nav_table") \in log
WriteFailed(table_name) == Error("write", table_name) \in log

IsPrefix(a, b) ==
    /\ Len(a) =< Len(b)
    /\ \A i \in 1..Len(a) : a[i] = b[i]

\* C1 (as claimed): once update_nav has written a non-empty NAV record set,
\* nav_table holds exactly that record set and no earlier row.
C1_NavTableReplaced ==
    (/\ pc = "Done"
     /\ last_call.table_name = "nav_table"
     /\ last_call.df # <<>>
     /\ ~WriteFailed("nav_table"))
    => db["nav_table"] = last_call.df

\* C2 (as claimed): after a failed read of shares_table every price record
\* of the cycle has a NAV record with nav = 0, handed to NAV persistence.
C2_ZeroNavOnReadFailure ==
    (pc = "Done" /\ ReadFailed)
    => /\ \A i \in 1..Len(df) :
            \E j \in 1..Len(result_df) :
                /\ result_df[j].pm = df[i].pm
                /\ result_df[j].nav = Zero
       /\ df # <<>> => last_call = Call("df_to_table", "nav_table", result_df)

\* C2 (amended): the step of update_nav in which the read of shares_table
\* fails logs the read failure and the NAV failure, produces no NAV record,
\* calls no write function, leaves the store as it was and ends the cycle.
C2_ReadFailureSkipsNav ==
    [][(pc = "ComputeAndPersistNav" /\ Error("read", "shares_table") \in log')
        => /\ pc' = "Done"
           /\ Error("nav", "nav_table") \in log'
           /\ result_df' = <<>>
           /\ db' = db
           /\ write_calls' = write_calls
           /\ last_call' = last_call]_vars

C2_Witness == pc = "Done" /\ ReadFailed /\ NavFailed /\ df # <<>>

\* C3: a failed quote never aborts the cycle: main() does not crash, every
\* symbol is attempted, and when exactly one of the N configured assets
\* failed the price table has N-1 records, none of them for that asset and
\* one for each other asset.
C3_OneFailureSkipsOneAsset ==
    LET failed == {s \in DOMAIN COIN_MAPPINGS : QuoteFailed(s)}
    IN  /\ failed # {} => pc # "Crashed"
        /\ pc \in AfterFetch =>
              /\ idx = Len(symbols)
              /\ Cardinality(failed) = 1 =>
                    /\ Len(df) = Len(CoinKeys) - 1
                    /\ \A s \in DOMAIN COIN_MAPPINGS :
                          Cardinality(RowsOf(df, COIN_MAPPINGS[s])) =
                              IF s \in failed THEN 0 ELSE 1

C3_Witness ==
    /\ pc = "Done"
    /\ QuoteFailed("ETHUSDT")
    /\ ~QuoteFailed("BTCUSDT")
    /\ ~QuoteFailed("SOLUSDT")
    /\ Len(df) = 2

\* C4: every symbol already handled whose fetch succeeded has exactly one
\* record in the cycle's price table, under its canonical name, and the
\* seconds and microseconds of that record's timestamp are zero.
C4_OneTruncatedRecordPerSuccess ==
    pc \in {"FetchAll"} \cup AfterFetch =>
        \A k \in 1..idx :
            ~QuoteFailed(symbols[k]) =>
                /\ Cardinality(RowsOf(df, COIN_MAPPINGS[symbols[k]])) = 1
                /\ \A i \in RowsOf(df, COIN_MAPPINGS[symbols[k]]) :
                      /\ df[i].timestamp.second = 0
                      /\ df[i].timestamp.microsecond = 0

C4_Witness ==
    /\ pc = "PersistPrices"
    /\ Len(df) = Len(CoinKeys)
    /\ df[Len(df)].timestamp.minute = MaxMinute

\* C5: a call of df_to_table or df_replace_table with an empty record set
\* issues no write call, logs no error and leaves every table as it was.
C5_EmptyInputIsNoOp ==
    [][(/\ last_call'.function \in {"df_to_table", "df_replace_table"}
        /\ last_call'.df = <<>>)
        => /\ write_calls' = write_calls
           /\ log' = log
           /\ db' = db]_vars

C5_Witness ==
    /\ pc = "db_utils"
    /\ last_call.function = "df_replace_table"
    /\ last_call.df = <<>>
    /\ db[last_call.table_name] # <<>>
    /\ write_calls > 0

\* C6: when the shares table was read, update_nav produces one NAV record
\* per price record, for the same asset and price and in the same order,
\* and a price record whose asset has no share row has nav = 0.
C6_LeftJoinCardinality ==
    (pc = "Done" /\ ~ReadFailed)
    => /\ Len(result_df) = Len(df)
       /\ \A i \in 1..Len(result_df) :
             /\ result_df[i].pm = df[i].pm
             /\ result_df[i].balance = df[i].balance
             /\ result_df[i].timestamp = df[i].timestamp
             /\ RowsOf(db["shares_table"], df[i].pm) = {} =>
                   /\ result_df[i].shares = NaN
                   /\ result_df[i].nav = Zero

C6_Witness ==
    /\ pc = "Done"
    /\ Len(result_df) = Len(CoinKeys)
    /\ Cardinality(RowsOf(db["shares_table"], "benchmark_btc")) = 2
    /\ RowsOf(db["shares_table"], "benchmark_eth") = {}
    /\ result_df[1].shares # NaN
    /\ result_df[2].nav = Zero

\* C7: in every joined row nav is 0 when shares is missing or zero and is
\* price / shares otherwise, and a zero share count raises no fault.
C7_NavRatioOrZero ==
    pc = "Done" =>
        /\ \A i \in 1..Len(result_df) :
              LET row == result_df[i]
              IN  IF row.shares = NaN \/ row.shares[1] = 0
                  THEN row.nav = Zero
                  ELSE /\ row.nav.den > 0
                       /\ row.nav.num * row.shares[1] = row.balance * row.nav.den
        /\ (~ReadFailed /\ df # <<>>) => (~NavFailed /\ Len(result_df) = Len(df))

C7_Witness ==
    /\ pc = "Done"
    /\ \E i \in 1..Len(result_df) :
          /\ result_df[i].balance = 100
          /\ result_df[i].shares = <<50>>
          /\ result_df[i].nav = [num |-> 2, den |-> 1]
    /\ \E i \in 1..Len(result_df) :
          /\ result_df[i].shares = <<0>>
          /\ result_df[i].nav = Zero

\* the rows of an asset that carry the asset's maximum timestamp
MaxRows(shares, name) ==
    {i \in RowsOf(shares, name) :
        \A j \in RowsOf(shares, name) : shares[j].timestamp =< shares[i].timestamp}

\* C8: every possible latest-shares projection keeps exactly one row for
\* each asset of the shares table; when a single row holds the asset's
\* maximum timestamp it is the kept row, whatever the order of the rows, and
\* it is the row the NAV record of that asset is joined with.
C8_LatestSharesPerAsset ==
    LET shares == db["shares_table"]
    IN  /\ \A latest \in LatestShares(shares) :
              \A i \in 1..Len(shares) :
                 LET name == shares[i].pm
                 IN  /\ Cardinality(RowsOf(latest, name)) = 1
                     /\ Cardinality(MaxRows(shares, name)) = 1 =>
                           \A k \in RowsOf(latest, name) :
                              \A m \in MaxRows(shares, name) :
                                 latest[k] = shares[m]
        /\ (pc = "Done" /\ ~ReadFailed) =>
              \A r \in 1..Len(result_df) :
                 \A m \in MaxRows(shares, result_df[r].pm) :
                    Cardinality(MaxRows(shares, result_df[r].pm)) = 1 =>
                       result_df[r].shares = shares[m].shares

C8_Witness ==
    /\ pc = "Done"
    /\ db["shares_table"] =
          <<[timestamp |-> 1, pm |-> "benchmark_btc", shares |-> <<50>>],
            [timestamp |-> 0, pm |-> "benchmark_btc", shares |-> <<0>>]>>
    /\ Len(result_df) = 1
    /\ result_df[1].balance = 100
    /\ result_df[1].shares = <<50>>
    /\ result_df[1].nav = [num |-> 2, den |-> 1]

StepOrder ==
    {<<"Init", "FetchAll">>, <<"Init", "Crashed">>,
     <<"FetchAll", "PersistPrices">>,
     <<"PersistPrices", "ComputeAndPersistNav">>,
     <<"ComputeAndPersistNav", "Done">>}

\* C9: main() moves only forward through Init, FetchAll, PersistPrices,
\* ComputeAndPersistNav, Done (or ends at once when the constructor raises);
\* once the tracker is constructed the run reaches Done, whatever fails, and
\* a failed write of the prices is followed by the NAV step.
C9_LinearRunReachesDone ==
    /\ [][pc' # pc => <<pc, pc'>> \in StepOrder]_vars
    /\ (pc = "FetchAll") ~> (pc = "Done")
    /\ WriteFailed("balance_all_consolidated") ~> (pc = "Done")

C9_Witness ==
    /\ pc = "Done"
    /\ WriteFailed("balance_all_consolidated")
    /\ db["balance_all_consolidated"] = <<>>
    /\ QuoteFailed("BTCUSDT")
    /\ result_df # <<>>

\* C10: with every fetch and write succeeding, each run appends its records
\* to the price sink behind the rows already there, so after the r-th run
\* has saved the sink holds r rows per configured asset; when both runs took
\* place in the same minute all rows carry the same truncated timestamp.
C10_PriceSinkAppendOnly ==
    /\ [](pc \in {"ComputeAndPersistNav", "Done"} =>
            LET sink == db["balance_all_consolidated"]
            IN  /\ \A a \in CanonicalNames : Cardinality(RowsOf(sink, a)) = run
                /\ Len(sink) = run * Len(CoinKeys)
                /\ clock_minute = 0 =>
                      \A i \in 1..Len(sink) :
                         sink[i].timestamp = Now(0, 0, 0))
    /\ [][/\ IsPrefix(db["balance_all_consolidated"],
                      db'["balance_all_consolidated"])
          /\ pc = "PersistPrices" =>
                db'["balance_all_consolidated"] =
                    db["balance_all_consolidated"] \o df]_vars

C10_Witness ==
    /\ pc = "Done"
    /\ run = 2
    /\ clock_minute = 0
    /\ Len(db["balance_all_consolidated"]) = 2 * Len(CoinKeys)
    /\ Cardinality(RowsOf(db["balance_all_consolidated"], "benchmark_sol")) = 2

====
